---------------------------- MODULE Spec2Model ----------------------------
(***************************************************************************)
(* The driver of the cellular-automata program: main(), loop(),            *)
(* should_log(), live_log() and sigint_handler() of src/src/main.cpp and   *)
(* config::load_cmd() of src/src/config.cpp.                               *)
(*                                                                         *)
(* Every piece of program state is a function of the execution ("run")     *)
(* it belongs to.  Spec has one execution.  SpecPair has two executions    *)
(* of the same build on the same command line that receive the same        *)
(* inputs at the same points and differ only in config::benchmarkMode.     *)
(* SpecLoop is one execution whose main thread is never suspended for      *)
(* ever, SpecOrder one execution on command lines in every order of their  *)
(* options, and SpecCmd is config::load_cmd alone.                         *)
(*                                                                         *)
(* Probabilities are kept in hundredths (0.2 is 20, 1 is 100).             *)
(***************************************************************************)
EXTENDS Integers, Sequences, FiniteSets

(***************************************************************************)
(* Bounds of the model.                                                    *)
(***************************************************************************)
\* longest command line, in options
MaxArgs == 2
\* largest value given to --max
MaxMax == 2
\* largest value of config::skipFrames
MaxSkipFrames == 1
\* stats::iterations is followed up to this value
MaxIterationCount == 3

VARIABLES
    runs,                 \* the executions of the program that are followed
    turn,                 \* the execution that takes the next program step
    build,                \* the preprocessor switches CPU_ONLY, HEADLESS_ONLY
    argv,                 \* the command line, a sequence of options
    config,               \* namespace config
    pc,                   \* the statement the main thread is at
    gLooping,
    gAutomata,            \* "null", or the engine the pointer refers to
    gDisplay,             \* "null", or "display"
    displayStopped,       \* Display: stop() has been called
    controls,             \* namespace controls: paused, singleStep
    iterations,           \* stats::iterations
    gLastIterationCount,
    gIterationsPerSecond,
    elapsed,              \* whole seconds from gLastPrintClock to now():
                          \* 0, or 1 for one second or more
    logEnabled,           \* loop(): const bool logEnabled
    repeat,               \* loop(): uint repeat
    hist                  \* what has happened so far (read by no action guard)

vars == <<runs, turn, build, argv, config, pc, gLooping, gAutomata, gDisplay,
          displayStopped, controls, iterations, gLastIterationCount,
          gIterationsPerSecond, elapsed, logEnabled, repeat, hist>>

inputVars == <<runs, build, argv>>
logVars == <<gLastIterationCount, gIterationsPerSecond, elapsed>>
objVars == <<gAutomata, gDisplay, displayStopped>>

(***************************************************************************)
(* The command line.                                                       *)
(***************************************************************************)
Tok(o, v) == [opt |-> o, val |-> v]

\* the options the driver depends on, in a fixed order
DriverTokens ==
    <<Tok("help", 0), Tok("rows", 0), Tok("cols", 0), Tok("render", 0),
      Tok("fill-probability", 150), Tok("virtual-fill-probability", 150)>>
    \o [i \in 1..MaxMax |-> Tok("max", i)]
    \o <<Tok("cpu", 0), Tok("file", 1), Tok("start", 0)>>

\* the file names: 0 is "random", 1 is a pattern file
FileName(v) == IF v = 0 THEN "random" ELSE "pattern.rle"

RECURSIVE SubSeqs(_, _, _)
\* the subsequences of toks[from..] of at most n options, no option twice
SubSeqs(toks, from, n) ==
    IF n = 0 \/ from > Len(toks) THEN {<<>>}
    ELSE SubSeqs(toks, from + 1, n)
         \cup {<<toks[from]>> \o s : s \in
                 {t \in SubSeqs(toks, from + 1, n - 1) :
                     \A i \in 1..Len(t) : t[i].opt # toks[from].opt}}

DriverArgvs == SubSeqs(DriverTokens, 1, MaxArgs)

\* the options that decide what the evolution loop does
LoopTokens ==
    <<Tok("render", 0)>> \o [i \in 1..MaxMax |-> Tok("max", i)]
    \o <<Tok("cpu", 0), Tok("start", 0)>>

LoopArgvs == SubSeqs(LoopTokens, 1, MaxArgs)

\* vm.count(name)
Count(args, name) == \E i \in 1..Len(args) : args[i].opt = name
\* vm[name].as<T>()
As(args, name) == args[CHOOSE i \in 1..Len(args) : args[i].opt = name].val

RECURSIVE Orders(_, _)
\* the command lines of at most n of the options toks, in every order, no
\* option twice
Orders(toks, n) ==
    IF n = 0 THEN {<<>>}
    ELSE LET shorter == Orders(toks, n - 1)
         IN  shorter
             \cup UNION {{Append(s, toks[i]) :
                             i \in {j \in 1..Len(toks) :
                                      ~Count(s, toks[j].opt)}} :
                         s \in shorter}

\* the options that decide what the evolution loop does, in every order
OrderArgvs == Orders(LoopTokens, MaxArgs)

\* the options that decide config::noDownsample: each size at the default
\* of the window and at the default of the grid
SizeTokens ==
    <<Tok("width", 600), Tok("width", 1200), Tok("height", 600),
      Tok("height", 1200), Tok("rows", 600), Tok("rows", 1200),
      Tok("cols", 600), Tok("cols", 1200), Tok("no-downsample", 0)>>

SizeArgvs == Orders(SizeTokens, MaxArgs)

(***************************************************************************)
(* namespace config.                                                       *)
(***************************************************************************)
\* the initial values of config.cpp; skipFrames and benchmarkMode are
\* defined outside config.cpp and no option of load_cmd sets them
ConfigDefaults(skip, bench) ==
    [width |-> 600, height |-> 600, rows |-> 1200, cols |-> 1200,
     render |-> FALSE, renderDelayMs |-> 0, fillProb |-> 20,
     virtualFillProb |-> 0, maxIterations |-> 0, cpuOnly |-> FALSE,
     patternFileName |-> "random", startPaused |-> TRUE,
     noDownsample |-> FALSE, skipFrames |-> skip, benchmarkMode |-> bench]

\* if (vm.count(name)) field = vm[name].as<T>();
SetIfGiven(c, args, name, field) ==
    IF Count(args, name) THEN [c EXCEPT ![field] = As(args, name)] ELSE c

\* if (vm.count(name)) field = true;
SetFlag(c, args, name, field) ==
    IF Count(args, name) THEN [c EXCEPT ![field] = TRUE] ELSE c

\* if (vm.count("file")) patternFileName = vm["file"].as<std::string>();
SetFile(c, args) ==
    IF Count(args, "file")
    THEN [c EXCEPT !.patternFileName = FileName(As(args, "file"))] ELSE c

\* SetStartPaused without the test of render
SetStartPausedOnStartOnly(c, args) ==
    IF Count(args, "start")
    THEN [c EXCEPT !.startPaused = FALSE] ELSE c

\* if (vm.count("start") || !render) startPaused = false;
SetStartPaused(c, args) ==
    IF Count(args, "start") \/ ~c.render
    THEN [c EXCEPT !.startPaused = FALSE] ELSE c

\* SetNoDownsample with || between the two comparisons
SetNoDownsampleOnEitherSize(c, args) ==
    IF Count(args, "no-downsample")
       \/ (c.width = c.cols \/ c.height = c.rows)
    THEN [c EXCEPT !.noDownsample = TRUE] ELSE c

\* if (vm.count("no-downsample") || (width == cols && height == rows))
\*     noDownsample = true;
SetNoDownsample(c, args) ==
    IF Count(args, "no-downsample")
       \/ (c.width = c.cols /\ c.height = c.rows)
    THEN [c EXCEPT !.noDownsample = TRUE] ELSE c

\* config::load_cmd past the --help test: the assignments in their order
load_cmd(c, args) ==
    LET c1 == SetIfGiven(c, args, "width", "width")
        c2 == SetIfGiven(c1, args, "height", "height")
        c3 == SetIfGiven(c2, args, "rows", "rows")
        c4 == SetIfGiven(c3, args, "cols", "cols")
        c5 == SetFlag(c4, args, "render", "render")
        c6 == SetIfGiven(c5, args, "render-delay", "renderDelayMs")
        c7 == SetIfGiven(c6, args, "fill-probability", "fillProb")
        c8 == SetIfGiven(c7, args, "virtual-fill-probability",
                         "virtualFillProb")
        c9 == SetIfGiven(c8, args, "max", "maxIterations")
        c10 == SetFlag(c9, args, "cpu", "cpuOnly")
        c11 == SetFile(c10, args)
        c12 == SetStartPaused(c11, args)
    IN  SetNoDownsample(c12, args)

(***************************************************************************)
(* The state before main() calls config::load_cmd: the globals hold their  *)
(* initial values and the SIGINT handler is installed.                     *)
(***************************************************************************)
NoHist ==
    [evolveCalls |-> 0, evolveReturned |-> 0, patternLoads |-> 0,
     enginesConstructed |-> 0, prepareCalls |-> 0,
     tickCalls |-> <<>>, tickStartIterations |-> 0,
     tickPaused |-> FALSE, tickSingleStep |-> FALSE,
     tickBufferUpdates |-> 0, tickDraws |-> 0, reportedTotal |-> 0,
     stopRequested |-> FALSE, stopInFlight |-> FALSE]

InitRun(rs, bench, argvs) ==
    /\ runs = rs
    /\ turn = 1
    /\ build \in [CPU_ONLY : BOOLEAN, HEADLESS_ONLY : BOOLEAN]
    /\ argv \in argvs
    /\ \E skip \in 0..MaxSkipFrames :
          config = [r \in rs |-> ConfigDefaults(skip, bench[r])]
    /\ pc = [r \in rs |-> "load_cmd"]
    /\ gLooping = [r \in rs |-> TRUE]
    /\ gAutomata = [r \in rs |-> "null"]
    /\ gDisplay = [r \in rs |-> "null"]
    /\ displayStopped = [r \in rs |-> FALSE]
    /\ controls = [r \in rs |-> [paused |-> FALSE, singleStep |-> FALSE]]
    /\ iterations = [r \in rs |-> 0]
    /\ gLastIterationCount = [r \in rs |-> 0]
    /\ gIterationsPerSecond = [r \in rs |-> 0]
    /\ elapsed = [r \in rs |-> 0]
    /\ logEnabled = [r \in rs |-> FALSE]
    /\ repeat = [r \in rs |-> 0]
    /\ hist = [r \in rs |-> NoHist]

\* one execution, in benchmark mode or not
Init == \E b \in BOOLEAN : InitRun({1}, [r \in {1} |-> b], DriverArgvs)

\* the executions take their program steps in turn
NextTurn(r) == IF r + 1 \in runs THEN r + 1 ELSE 1
Turn(r) ==
    /\ turn = r
    /\ turn' = NextTurn(r)
    /\ UNCHANGED inputVars

(***************************************************************************)
(* main() up to the evolution loop.                                        *)
(***************************************************************************)
\* config::load_cmd(argc, argv): --help prints the usage and exits
LoadCmd(r) ==
    /\ Turn(r)
    /\ pc[r] = "load_cmd"
    /\ IF Count(argv, "help")
       THEN /\ pc' = [pc EXCEPT ![r] = "exited"]
            /\ UNCHANGED config
       ELSE /\ config' = [config EXCEPT ![r] = load_cmd(@, argv)]
            /\ pc' = [pc EXCEPT ![r] = "init_display"]
    /\ UNCHANGED <<gLooping, objVars, controls, iterations, logVars,
                   logEnabled, repeat, hist>>

\* #ifndef HEADLESS_ONLY
\*     controls::paused = config::startPaused;
\*     if (config::render) gDisplay = new Display(...);
InitDisplay(r) ==
    /\ Turn(r)
    /\ pc[r] = "init_display"
    /\ IF build.HEADLESS_ONLY
       THEN UNCHANGED <<controls, gDisplay>>
       ELSE /\ controls' = [controls EXCEPT
                               ![r].paused = config[r].startPaused]
            /\ gDisplay' = [gDisplay EXCEPT
                  ![r] = IF config[r].render THEN "display" ELSE @]
    /\ pc' = [pc EXCEPT ![r] = "construct"]
    /\ UNCHANGED <<config, gLooping, gAutomata, displayStopped, iterations,
                   logVars, logEnabled, repeat, hist>>

\* the engine main() constructs: "cpu" is cpu::AutomataBase, "gpu_vbo" the
\* gpu engine drawing into the display's buffer, "gpu" the headless gpu
\* engine, "none" when no branch of the if statement is compiled in
SelectEngine(c, b) ==
    IF c.cpuOnly THEN "cpu"
    ELSE IF b.CPU_ONLY THEN "none"
    ELSE IF ~b.HEADLESS_ONLY /\ c.render THEN "gpu_vbo"
    ELSE "gpu"

\* if (config::cpuOnly) gAutomata = new cpu::AutomataBase(...);
\* else if (config::render) gAutomata = new gpu::AUTOMATA(..., vbo);
\* else gAutomata = new gpu::AUTOMATA(...);
ConstructEngine(r) ==
    /\ Turn(r)
    /\ pc[r] = "construct"
    /\ LET e == SelectEngine(config[r], build)
       IN  IF e = "none"
           THEN UNCHANGED <<gAutomata, hist>>
           ELSE /\ gAutomata' = [gAutomata EXCEPT ![r] = e]
                /\ hist' = [hist EXCEPT ![r].enginesConstructed = @ + 1]
    /\ pc' = [pc EXCEPT ![r] = "load_pattern"]
    /\ UNCHANGED <<config, gLooping, gDisplay, displayStopped, controls,
                   iterations, logVars, logEnabled, repeat>>

\* if (config::patternFileName != "random") load_pattern(...);
LoadPattern(r) ==
    /\ Turn(r)
    /\ pc[r] = "load_pattern"
    /\ hist' = [hist EXCEPT ![r].patternLoads =
                    IF config[r].patternFileName # "random" THEN @ + 1 ELSE @]
    /\ pc' = [pc EXCEPT ![r] = "prepare"]
    /\ UNCHANGED <<config, gLooping, objVars, controls, iterations, logVars,
                   logEnabled, repeat>>

\* where a member call through gAutomata continues: a call through the null
\* pointer is undefined, the process is killed or the call returns
CallThrough(engine, next) ==
    IF engine = "null" THEN {"crashed", next} ELSE {next}

\* gAutomata->prepare();
Prepare(r) ==
    /\ Turn(r)
    /\ pc[r] = "prepare"
    /\ \E to \in CallThrough(gAutomata[r], "start") :
          pc' = [pc EXCEPT ![r] = to]
    /\ hist' = [hist EXCEPT ![r].prepareCalls = @ + 1]
    /\ UNCHANGED <<config, gLooping, objVars, controls, iterations, logVars,
                   logEnabled, repeat>>

\* whether the build and the configuration give a display:
\* #ifndef HEADLESS_ONLY ... if (config::render)
Rendering(c, b) == ~b.HEADLESS_ONLY /\ c.render

\* if (config::render) gDisplay->start(); else while (gLooping) loop();
StartLoop(r) ==
    /\ Turn(r)
    /\ pc[r] = "start"
    /\ pc' = [pc EXCEPT ![r] =
                IF Rendering(config[r], build)
                THEN "display_loop" ELSE "while_test"]
    /\ UNCHANGED <<config, gLooping, objVars, controls, iterations, logVars,
                   logEnabled, repeat, hist>>

(***************************************************************************)
(* The evolution loop.                                                     *)
(***************************************************************************)
\* a call of loop() begins a tick: hist keeps what the tick started from
BeginTick(h, r) ==
    [h EXCEPT ![r].tickCalls = <<>>,
              ![r].tickStartIterations = iterations[r],
              ![r].tickPaused = controls[r].paused,
              ![r].tickSingleStep = controls[r].singleStep,
              ![r].tickBufferUpdates = 0,
              ![r].tickDraws = 0]

\* while (gLooping) loop();
WhileTest(r) ==
    /\ Turn(r)
    /\ pc[r] = "while_test"
    /\ IF gLooping[r]
       THEN /\ pc' = [pc EXCEPT ![r] = "loop_entry"]
            /\ hist' = BeginTick(hist, r)
       ELSE /\ pc' = [pc EXCEPT ![r] = "after_loop"]
            /\ UNCHANGED hist
    /\ UNCHANGED <<config, gLooping, objVars, controls, iterations, logVars,
                   logEnabled, repeat>>

\* Display::start(): the window system's main loop calls loop() again and
\* again until Display::stop() has been called
DisplayIdle(r) ==
    /\ Turn(r)
    /\ pc[r] = "display_loop"
    /\ ~displayStopped[r]
    /\ pc' = [pc EXCEPT ![r] = "loop_entry"]
    /\ hist' = BeginTick(hist, r)
    /\ UNCHANGED <<config, gLooping, objVars, controls, iterations, logVars,
                   logEnabled, repeat>>

\* Display::start() returns once Display::stop() has been called
DisplayReturn(r) ==
    /\ Turn(r)
    /\ pc[r] = "display_loop"
    /\ displayStopped[r]
    /\ pc' = [pc EXCEPT ![r] = "after_loop"]
    /\ UNCHANGED <<config, gLooping, objVars, controls, iterations, logVars,
                   logEnabled, repeat, hist>>

\* ulong values wrap at a power of two.  ulong is 64 bits wide; the model
\* checker's integers end below 2^31, so the model wraps at 2^30, far above
\* every value it reaches
ULongModulus == 1073741824

\* a - b on ulong
ULongSub(a, b) == (a - b) % ULongModulus

\* should_log without the test gIterationsPerSecond <= 0
should_log_without_zero_test(ips, secs) == ~(secs < 1)

\* should_log without the test of the clock
should_log_every_tick(ips, secs) == ~(ips <= 0)

\* should_log() after its assignment to gIterationsPerSecond:
\* !(gIterationsPerSecond <= 0 || seconds since gLastPrintClock < 1)
should_log(ips, secs) == ~(ips <= 0 \/ secs < 1)

\* loop() from its first line to the test of config::render: the render
\* delay, then logEnabled = !config::benchmarkMode && should_log()
PrepareLogging(r) ==
    /\ Turn(r)
    /\ pc[r] = "loop_entry"
    /\ IF config[r].benchmarkMode
       THEN /\ logEnabled' = [logEnabled EXCEPT ![r] = FALSE]
            /\ UNCHANGED gIterationsPerSecond
       ELSE LET ips == ULongSub(iterations[r], gLastIterationCount[r])
            IN  /\ gIterationsPerSecond' =
                      [gIterationsPerSecond EXCEPT ![r] = ips]
                /\ logEnabled' =
                      [logEnabled EXCEPT ![r] = should_log(ips, elapsed[r])]
    /\ pc' = [pc EXCEPT ![r] =
                IF Rendering(config[r], build)
                THEN "update_buffers" ELSE "pause_test"]
    /\ UNCHANGED <<config, gLooping, objVars, controls, iterations,
                   gLastIterationCount, elapsed, repeat, hist>>

\* UpdateGridBuffers with the draw call left out
UpdateGridBuffersWithoutDraw(r) ==
    /\ Turn(r)
    /\ pc[r] = "update_buffers"
    /\ \E to \in CallThrough(gAutomata[r], "pause_test") :
          pc' = [pc EXCEPT ![r] = to]
    /\ hist' = [hist EXCEPT ![r].tickBufferUpdates = @ + 1]
    /\ UNCHANGED <<config, gLooping, objVars, controls, iterations, logVars,
                   logEnabled, repeat>>

\* gAutomata->update_grid_buffers();
UpdateGridBuffers(r) ==
    /\ Turn(r)
    /\ pc[r] = "update_buffers"
    /\ \E to \in CallThrough(gAutomata[r], "draw") :
          pc' = [pc EXCEPT ![r] = to]
    /\ hist' = [hist EXCEPT ![r].tickBufferUpdates = @ + 1]
    /\ UNCHANGED <<config, gLooping, objVars, controls, iterations, logVars,
                   logEnabled, repeat>>

\* gDisplay->draw(logEnabled, gIterationsPerSecond);
Draw(r) ==
    /\ Turn(r)
    /\ pc[r] = "draw"
    /\ pc' = [pc EXCEPT ![r] = "pause_test"]
    /\ hist' = [hist EXCEPT ![r].tickDraws = @ + 1]
    /\ UNCHANGED <<config, gLooping, objVars, controls, iterations, logVars,
                   logEnabled, repeat>>

\* PausedTick with the single-step test left out
PausedTickIgnoringStep(ctl, b) == ~b.HEADLESS_ONLY /\ ctl.paused

\* if (controls::paused && !controls::singleStep): compiled in only
\* without HEADLESS_ONLY
PausedTick(ctl, b) == ~b.HEADLESS_ONLY /\ ctl.paused /\ ~ctl.singleStep

\* PauseTest with a single step computing the batch as well
PauseTestBatchOnStep(r) ==
    /\ Turn(r)
    /\ pc[r] = "pause_test"
    /\ IF build.HEADLESS_ONLY
       THEN /\ pc' = [pc EXCEPT ![r] = "evolve_last"]
            /\ UNCHANGED <<controls, repeat>>
       ELSE IF PausedTick(controls[r], build)
       THEN /\ pc' = [pc EXCEPT ![r] = "tick_time"]
            /\ UNCHANGED <<controls, repeat>>
       ELSE /\ pc' = [pc EXCEPT ![r] = "batch_test"]
            /\ repeat' = [repeat EXCEPT ![r] = 0]
            /\ UNCHANGED controls
    /\ UNCHANGED <<config, gLooping, objVars, iterations, logVars,
                   logEnabled, hist>>

\* the test of the pause controls, not compiled in with HEADLESS_ONLY; a
\* tick that is not paused goes on to the batch of extra generations unless
\* it is a single step
PauseTest(r) ==
    /\ Turn(r)
    /\ pc[r] = "pause_test"
    /\ IF build.HEADLESS_ONLY
       THEN /\ pc' = [pc EXCEPT ![r] = "evolve_last"]
            /\ UNCHANGED <<controls, repeat>>
       ELSE IF PausedTick(controls[r], build)
       THEN /\ pc' = [pc EXCEPT ![r] = "tick_time"]
            /\ UNCHANGED <<controls, repeat>>
       ELSE IF ~controls[r].singleStep
       THEN /\ pc' = [pc EXCEPT ![r] = "batch_test"]
            /\ repeat' = [repeat EXCEPT ![r] = 0]
            /\ UNCHANGED controls
       ELSE /\ pc' = [pc EXCEPT ![r] = "evolve_last"]
            /\ controls' = [controls EXCEPT ![r].singleStep = FALSE]
            /\ UNCHANGED repeat
    /\ UNCHANGED <<config, gLooping, objVars, iterations, logVars,
                   logEnabled, hist>>

\* gAutomata->evolve(countAlive) is called
CallEvolve(h, r, countAlive) ==
    [h EXCEPT ![r].evolveCalls = @ + 1,
              ![r].tickCalls = Append(@, countAlive)]

\* BatchTest with the batch left out of a tick that logs
BatchTestSkippedWhenLogging(r) ==
    /\ Turn(r)
    /\ pc[r] = "batch_test"
    /\ IF repeat[r] < config[r].skipFrames /\ ~logEnabled[r]
       THEN /\ iterations[r] < MaxIterationCount
            /\ pc' = [pc EXCEPT ![r] = "in_evolve_batch"]
            /\ hist' = CallEvolve(hist, r, FALSE)
            /\ UNCHANGED controls
       ELSE /\ pc' = [pc EXCEPT ![r] = "evolve_last"]
            /\ controls' = [controls EXCEPT ![r].singleStep = FALSE]
            /\ UNCHANGED hist
    /\ UNCHANGED <<config, gLooping, objVars, iterations, logVars,
                   logEnabled, repeat>>

\* BatchTest with the loop test repeat <= config::skipFrames
BatchTestOneMore(r) ==
    /\ Turn(r)
    /\ pc[r] = "batch_test"
    /\ IF repeat[r] <= config[r].skipFrames
       THEN /\ iterations[r] < MaxIterationCount
            /\ pc' = [pc EXCEPT ![r] = "in_evolve_batch"]
            /\ hist' = CallEvolve(hist, r, FALSE)
            /\ UNCHANGED controls
       ELSE /\ pc' = [pc EXCEPT ![r] = "evolve_last"]
            /\ controls' = [controls EXCEPT ![r].singleStep = FALSE]
            /\ UNCHANGED hist
    /\ UNCHANGED <<config, gLooping, objVars, iterations, logVars,
                   logEnabled, repeat>>

\* for (uint repeat = 0; repeat < config::skipFrames; ++repeat)
\*     gAutomata->evolve(false); ...
\* and after the loop: controls::singleStep = false;
BatchTest(r) ==
    /\ Turn(r)
    /\ pc[r] = "batch_test"
    /\ IF repeat[r] < config[r].skipFrames
       THEN /\ iterations[r] < MaxIterationCount
            /\ pc' = [pc EXCEPT ![r] = "in_evolve_batch"]
            /\ hist' = CallEvolve(hist, r, FALSE)
            /\ UNCHANGED controls
       ELSE /\ pc' = [pc EXCEPT ![r] = "evolve_last"]
            /\ controls' = [controls EXCEPT ![r].singleStep = FALSE]
            /\ UNCHANGED hist
    /\ UNCHANGED <<config, gLooping, objVars, iterations, logVars,
                   logEnabled, repeat>>

\* the evolve call of the batch returns
EvolveBatchReturn(r) ==
    /\ Turn(r)
    /\ pc[r] = "in_evolve_batch"
    /\ \E to \in CallThrough(gAutomata[r], "batch_inc") :
          pc' = [pc EXCEPT ![r] = to]
    /\ hist' = [hist EXCEPT ![r].evolveReturned = @ + 1]
    /\ UNCHANGED <<config, gLooping, objVars, controls, iterations, logVars,
                   logEnabled, repeat>>

\* BatchIncrement without its ++stats::iterations
BatchIncrementRepeatOnly(r) ==
    /\ Turn(r)
    /\ pc[r] = "batch_inc"
    /\ repeat' = [repeat EXCEPT ![r] = @ + 1]
    /\ pc' = [pc EXCEPT ![r] = "batch_test"]
    /\ UNCHANGED <<config, gLooping, objVars, controls, iterations, logVars,
                   logEnabled, hist>>

\* ++stats::iterations; and the loop's ++repeat
BatchIncrement(r) ==
    /\ Turn(r)
    /\ pc[r] = "batch_inc"
    /\ iterations' = [iterations EXCEPT ![r] = @ + 1]
    /\ repeat' = [repeat EXCEPT ![r] = @ + 1]
    /\ pc' = [pc EXCEPT ![r] = "batch_test"]
    /\ UNCHANGED <<config, gLooping, objVars, controls, logVars, logEnabled,
                   hist>>

\* gAutomata->evolve(logEnabled); is called
EvolveLast(r) ==
    /\ Turn(r)
    /\ pc[r] = "evolve_last"
    /\ iterations[r] < MaxIterationCount
    /\ pc' = [pc EXCEPT ![r] = "in_evolve_last"]
    /\ hist' = CallEvolve(hist, r, logEnabled[r])
    /\ UNCHANGED <<config, gLooping, objVars, controls, iterations, logVars,
                   logEnabled, repeat>>

\* EvolveLastReturn leaving the tick uncounted once gLooping is false
EvolveLastReturnAbandoned(r) ==
    /\ Turn(r)
    /\ pc[r] = "in_evolve_last"
    /\ \E to \in CallThrough(gAutomata[r],
                              IF gLooping[r] THEN "last_inc"
                              ELSE "check_max") :
          pc' = [pc EXCEPT ![r] = to]
    /\ hist' = [hist EXCEPT ![r].evolveReturned = @ + 1]
    /\ UNCHANGED <<config, gLooping, objVars, controls, iterations, logVars,
                   logEnabled, repeat>>

\* the last evolve call of the tick returns
EvolveLastReturn(r) ==
    /\ Turn(r)
    /\ pc[r] = "in_evolve_last"
    /\ \E to \in CallThrough(gAutomata[r], "last_inc") :
          pc' = [pc EXCEPT ![r] = to]
    /\ hist' = [hist EXCEPT ![r].evolveReturned = @ + 1]
    /\ UNCHANGED <<config, gLooping, objVars, controls, iterations, logVars,
                   logEnabled, repeat>>

\* ++stats::iterations;
LastIncrement(r) ==
    /\ Turn(r)
    /\ pc[r] = "last_inc"
    /\ iterations' = [iterations EXCEPT ![r] = @ + 1]
    /\ pc' = [pc EXCEPT ![r] = "tick_time"]
    /\ UNCHANGED <<config, gLooping, objVars, controls, logVars, logEnabled,
                   repeat, hist>>

\* where a division by d continues: an integer division by zero is
\* undefined, the process is killed or the statement completes
DivideBy(d, next) == IF d = 0 THEN {"crashed", next} ELSE {next}

\* live_log() prints the line with " | It/s: " << gIterationsPerSecond
Report(h, r) ==
    [h EXCEPT ![r].reportedTotal = @ + gIterationsPerSecond[r]]

\* LiveLog with live_log() resetting stats::iterations as well
LiveLogResettingIterations(r) ==
    /\ Turn(r)
    /\ pc[r] = "tick_time"
    /\ IF logEnabled[r]
       THEN \E to \in DivideBy(gIterationsPerSecond[r], "check_max") :
               /\ pc' = [pc EXCEPT ![r] = to]
               /\ IF to = "crashed"
                  THEN UNCHANGED <<gLastIterationCount, elapsed, iterations,
                                   hist>>
                  ELSE /\ hist' = Report(hist, r)
                       /\ gLastIterationCount' =
                             [gLastIterationCount EXCEPT ![r] = 0]
                       /\ iterations' = [iterations EXCEPT ![r] = 0]
                       /\ elapsed' = [elapsed EXCEPT ![r] = 0]
       ELSE /\ pc' = [pc EXCEPT ![r] = "check_max"]
            /\ UNCHANGED <<gLastIterationCount, elapsed, iterations, hist>>
    /\ UNCHANGED <<config, gLooping, objVars, controls,
                   gIterationsPerSecond, logEnabled, repeat>>

\* gNsBetweenSeconds += ...; if (logEnabled) live_log();
\* live_log() writes gIterationsPerSecond and gNsBetweenSeconds /
\* gIterationsPerSecond to the log line, prints it, and ends with
\* gLastIterationCount = stats::iterations and gLastPrintClock = now()
LiveLog(r) ==
    /\ Turn(r)
    /\ pc[r] = "tick_time"
    /\ IF logEnabled[r]
       THEN \E to \in DivideBy(gIterationsPerSecond[r], "check_max") :
               /\ pc' = [pc EXCEPT ![r] = to]
               /\ IF to = "crashed"
                  THEN UNCHANGED <<gLastIterationCount, elapsed, hist>>
                  ELSE /\ hist' = Report(hist, r)
                       /\ gLastIterationCount' =
                             [gLastIterationCount EXCEPT
                                 ![r] = iterations[r]]
                       /\ elapsed' = [elapsed EXCEPT ![r] = 0]
       ELSE /\ pc' = [pc EXCEPT ![r] = "check_max"]
            /\ UNCHANGED <<gLastIterationCount, elapsed, hist>>
    /\ UNCHANGED <<config, gLooping, objVars, controls, iterations,
                   gIterationsPerSecond, logEnabled, repeat>>

\* StopTick without the test config::maxIterations > 0
StopTickAtZeroMax(c, looping, its) == ~looping \/ its >= c.maxIterations

\* !gLooping || (config::maxIterations > 0 &&
\*               stats::iterations >= config::maxIterations)
StopTick(c, looping, its) ==
    ~looping \/ (c.maxIterations > 0 /\ its >= c.maxIterations)

\* the end of loop(): if the test holds, gDisplay->stop() when rendering and
\* gLooping = false otherwise; then loop() returns to its caller
CheckMax(r) ==
    /\ Turn(r)
    /\ pc[r] = "check_max"
    /\ IF StopTick(config[r], gLooping[r], iterations[r])
       THEN IF Rendering(config[r], build)
            THEN /\ displayStopped' = [displayStopped EXCEPT ![r] = TRUE]
                 /\ UNCHANGED gLooping
            ELSE /\ gLooping' = [gLooping EXCEPT ![r] = FALSE]
                 /\ UNCHANGED displayStopped
       ELSE UNCHANGED <<gLooping, displayStopped>>
    /\ pc' = [pc EXCEPT ![r] =
                IF Rendering(config[r], build)
                THEN "display_loop" ELSE "while_test"]
    /\ UNCHANGED <<config, gAutomata, gDisplay, controls, iterations,
                   logVars, logEnabled, repeat, hist>>

\* main() after the loop: the output, delete gAutomata, return 0
AfterLoop(r) ==
    /\ Turn(r)
    /\ pc[r] = "after_loop"
    /\ pc' = [pc EXCEPT ![r] = "done"]
    /\ UNCHANGED <<config, gLooping, objVars, controls, iterations, logVars,
                   logEnabled, repeat, hist>>

(***************************************************************************)
(* What reaches the program from outside.  An input reaches every          *)
(* execution at the same point of its run.                                 *)
(***************************************************************************)
Terminated == {"exited", "crashed", "done"}

\* the main thread is inside gAutomata->evolve()
InEvolve == {"in_evolve_batch", "in_evolve_last"}

\* the statements that read gLooping: while (gLooping), and the test at the
\* end of loop()
ReadsGLooping == {"while_test", "check_max"}

SamePoint ==
    /\ turn = 1
    /\ \A r \in runs : pc[r] = pc[1] /\ repeat[r] = repeat[1]

\* void sigint_handler(int s) { gLooping = false; ... }
sigint_handler ==
    /\ SamePoint
    /\ pc[1] \notin Terminated
    /\ gLooping' = [r \in runs |-> FALSE]
    /\ hist' = [r \in runs |->
                  [hist[r] EXCEPT !.stopRequested = TRUE,
                                  !.stopInFlight = @ \/ pc[r] \in InEvolve]]
    /\ UNCHANGED <<inputVars, turn, config, pc, objVars, controls,
                   iterations, logVars, logEnabled, repeat>>

\* the pause key, handled by the window system's main loop between two
\* calls of loop(): pause or resume
KeyPause ==
    /\ SamePoint
    /\ pc[1] = "display_loop"
    /\ controls' = [r \in runs |->
                      [controls[r] EXCEPT !.paused = ~controls[r].paused]]
    /\ UNCHANGED <<inputVars, turn, config, pc, gLooping, objVars,
                   iterations, logVars, logEnabled, repeat, hist>>

\* the step key: the next tick computes a single generation
KeyStep ==
    /\ SamePoint
    /\ pc[1] = "display_loop"
    /\ controls' = [r \in runs |-> [controls[r] EXCEPT !.singleStep = TRUE]]
    /\ UNCHANGED <<inputVars, turn, config, pc, gLooping, objVars,
                   iterations, logVars, logEnabled, repeat, hist>>

\* steady_clock::now() reaches a whole second past gLastPrintClock
ClockTick(r) ==
    /\ pc[r] \notin Terminated
    /\ elapsed[r] = 0
    /\ elapsed' = [elapsed EXCEPT ![r] = 1]
    /\ UNCHANGED <<inputVars, turn, config, pc, gLooping, objVars, controls,
                   iterations, gLastIterationCount, gIterationsPerSecond,
                   logEnabled, repeat, hist>>

\* the main thread of the execution whose turn it is takes its next step
MainThread ==
    \/ LoadCmd(turn)
    \/ InitDisplay(turn)
    \/ ConstructEngine(turn)
    \/ LoadPattern(turn)
    \/ Prepare(turn)
    \/ StartLoop(turn)
    \/ WhileTest(turn)
    \/ DisplayIdle(turn)
    \/ DisplayReturn(turn)
    \/ PrepareLogging(turn)
    \/ UpdateGridBuffers(turn)
    \/ Draw(turn)
    \/ PauseTest(turn)
    \/ BatchTest(turn)
    \/ EvolveBatchReturn(turn)
    \/ BatchIncrement(turn)
    \/ EvolveLast(turn)
    \/ EvolveLastReturn(turn)
    \/ LastIncrement(turn)
    \/ LiveLog(turn)
    \/ CheckMax(turn)
    \/ AfterLoop(turn)

\* the main thread takes a step, or an input arrives
Next ==
    \/ MainThread
    \/ \E r \in runs : ClockTick(r)
    \/ sigint_handler
    \/ KeyPause
    \/ KeyStep

Spec == Init /\ [][Next]_vars

\* two executions on the same inputs: execution 1 logs, execution 2 is in
\* benchmark mode
InitPair == InitRun({1, 2}, [r \in {1, 2} |-> r = 2], LoopArgvs)

SpecPair == InitPair /\ [][Next]_vars

\* one execution on the options that decide what the loop does; the main
\* thread is never suspended for ever: a statement that can be executed is
\* executed, and a call of evolve, once made, returns or kills the process
InitLoop == \E b \in BOOLEAN : InitRun({1}, [r \in {1} |-> b], LoopArgvs)

SpecLoop == InitLoop /\ [][Next]_vars /\ WF_vars(MainThread)

\* one execution on the options that decide what the loop does, given in
\* any order
InitOrder == \E b \in BOOLEAN : InitRun({1}, [r \in {1} |-> b], OrderArgvs)

SpecOrder == InitOrder /\ [][Next]_vars

\* config::load_cmd alone, on command lines that give the sizes of the
\* window and of the grid in any order
InitCmd == \E b \in BOOLEAN : InitRun({1}, [r \in {1} |-> b], SizeArgvs)

SpecCmd == InitCmd /\ [][LoadCmd(turn)]_vars

(***************************************************************************)
(* The claims.                                                             *)
(***************************************************************************)
\* the loop has ended: main() is past gDisplay->start() or the while loop
LoopEnded == {"after_loop", "done"}

\* C1: a stop request never makes the loop exit in the middle of a
\* generation.  Wherever gLooping is read, and once the loop has ended, no
\* evolve call is in flight: every call that was made has returned and has
\* been counted in stats::iterations.
C1_StopOnlyBetweenGenerations ==
    \A r \in runs :
        pc[r] \in ReadsGLooping \cup LoopEnded =>
            /\ hist[r].evolveCalls = hist[r].evolveReturned
            /\ iterations[r] = hist[r].evolveReturned

\* C1 witness: SIGINT arrived during an evolve call, that call returned and
\* was counted, and the loop has ended.
C1_Witness ==
    \E r \in runs :
        /\ pc[r] = "done"
        /\ hist[r].stopInFlight
        /\ iterations[r] >= 1
        /\ iterations[r] = hist[r].evolveCalls

\* C2: once a stop request has been received, no evolve call is started.
C2_NoGenerationStartsAfterStop ==
    [][\A r \in runs :
          hist[r].stopRequested =>
              hist'[r].evolveCalls = hist[r].evolveCalls]_vars

\* C3: with config::maxIterations = M > 0, stats::iterations never exceeds
\* M, and a tick that ends with stats::iterations >= M stops the loop.
C3_MaxIterationsNeverExceeded ==
    \A r \in runs :
        config[r].maxIterations > 0 =>
            /\ iterations[r] <= config[r].maxIterations
            /\ (pc[r] = "while_test"
                  /\ iterations[r] >= config[r].maxIterations)
                   => ~gLooping[r]
            /\ (pc[r] = "display_loop"
                  /\ iterations[r] >= config[r].maxIterations)
                   => displayStopped[r]

\* the tick began paused and without a single step asked for
TickBeganPaused(r) == hist[r].tickPaused /\ ~hist[r].tickSingleStep

\* the body of the tick is over: loop() is at its timing and stop test
TickBodyDone == {"tick_time", "check_max"}

\* C4: a tick that began with controls::paused true and
\* controls::singleStep false calls evolve not at all and leaves
\* stats::iterations as it was; every other tick has called evolve at least
\* once when its body is over.
C4_PauseGating ==
    \A r \in runs :
        /\ TickBeganPaused(r) =>
              /\ hist[r].tickCalls = <<>>
              /\ iterations[r] = hist[r].tickStartIterations
        /\ (pc[r] \in TickBodyDone /\ ~TickBeganPaused(r)) =>
              Len(hist[r].tickCalls) >= 1

\* C4 witness: a paused tick has run its body after generations were
\* computed.
C4_Witness ==
    \E r \in runs :
        /\ pc[r] = "check_max"
        /\ TickBeganPaused(r)
        /\ iterations[r] >= 1

\* the countAlive arguments of a tick's evolve calls but the last
ButLast(calls) == SubSeq(calls, 1, Len(calls) - 1)

\* C5: logging does not change the evolution.  Two executions on the same
\* configuration and the same inputs, execution 1 logging whenever
\* should_log() allows and execution 2 never logging, are at the same
\* statement whenever both have taken as many steps, have called evolve as
\* often, in the tick and in all, have equal stats::iterations, and have
\* passed equal countAlive arguments to all but the last evolve call of the
\* tick.
C5_LoggingDoesNotChangeEvolution ==
    (turn = 1 /\ \A r \in runs : pc[r] # "crashed") =>
        \A r \in runs :
            /\ pc[r] = pc[1]
            /\ iterations[r] = iterations[1]
            /\ hist[r].evolveCalls = hist[1].evolveCalls
            /\ Len(hist[r].tickCalls) = Len(hist[1].tickCalls)
            /\ ButLast(hist[r].tickCalls) = ButLast(hist[1].tickCalls)

\* C5 witness: a tick of several generations in which execution 1 logged
\* and counted the live cells and execution 2 did neither.
C5_Witness ==
    /\ runs = {1, 2}
    /\ turn = 1
    /\ pc[1] = "check_max" /\ pc[2] = "check_max"
    /\ logEnabled[1] /\ ~logEnabled[2]
    /\ Len(hist[1].tickCalls) >= 2
    /\ hist[1].tickCalls[Len(hist[1].tickCalls)]
    /\ ~hist[2].tickCalls[Len(hist[2].tickCalls)]
    /\ gLastIterationCount[1] # gLastIterationCount[2]

\* loop() has just been called, is about to return, or has returned
TickBoundary ==
    {"loop_entry", "check_max", "while_test", "display_loop"} \cup LoopEnded

\* C6: stats::iterations never decreases, and at the start and at the end
\* of every call of loop() it is the number of evolve calls that have
\* returned.
C6_IterationsCountReturnedEvolves ==
    /\ [](\A r \in runs :
             pc[r] \in TickBoundary =>
                 iterations[r] = hist[r].evolveReturned)
    /\ [][\A r \in runs : iterations'[r] >= iterations[r]]_vars

\* C6 witness: a tick ends after several generations.
C6_Witness ==
    \E r \in runs :
        /\ pc[r] = "check_max"
        /\ iterations[r] >= 2
        /\ hist[r].evolveReturned = iterations[r]

LoopIncrements == {"batch_inc", "last_inc"}

InvalidConfig(c) ==
    \/ c.rows = 0
    \/ c.cols = 0
    \/ c.fillProb < 0 \/ c.fillProb > 100
    \/ c.virtualFillProb < 0 \/ c.virtualFillProb > 100

\* C8: with an invalid configuration loaded, no engine is constructed,
\* prepare() is not called and evolve is not called.
C8_InvalidConfigNeverReachesEngine ==
    \A r \in runs :
        InvalidConfig(config[r]) =>
            /\ hist[r].enginesConstructed = 0
            /\ hist[r].prepareCalls = 0
            /\ hist[r].evolveCalls = 0

\* C9: the startup steps come in the order load_cmd, engine construction,
\* pattern load, prepare(), first evolve.  The pattern is loaded at most
\* once, exactly when config::patternFileName is not "random", after the
\* engine was constructed and before prepare(); prepare() is called once,
\* with the engine constructed, before any evolve.
C9_StartupOrder ==
    \A r \in runs :
        /\ hist[r].enginesConstructed > 0 => pc[r] # "load_cmd"
        /\ hist[r].patternLoads > 0 =>
              /\ hist[r].enginesConstructed > 0
              /\ hist[r].patternLoads = 1
              /\ config[r].patternFileName # "random"
        /\ hist[r].prepareCalls > 0 =>
              /\ hist[r].enginesConstructed > 0
              /\ hist[r].prepareCalls = 1
              /\ hist[r].patternLoads =
                    IF config[r].patternFileName # "random" THEN 1 ELSE 0
        /\ hist[r].evolveCalls > 0 => hist[r].prepareCalls = 1
        /\ pc[r] \in {"load_cmd", "init_display", "construct",
                      "load_pattern", "prepare", "exited"} =>
              hist[r].evolveCalls = 0

\* C10: when prepare() is called, exactly one engine has been constructed
\* and gAutomata refers to it, whatever the build and the configuration.
C10_OneEngineWhenPrepared ==
    \A r \in runs :
        hist[r].prepareCalls > 0 =>
            /\ hist[r].enginesConstructed = 1
            /\ gAutomata[r] # "null"
            /\ gAutomata[r] = SelectEngine(config[r], build)

\* the execution runs the headless driver: main() runs while (gLooping)
\* loop() and not gDisplay->start()
Headless(r) == ~Rendering(config[r], build)

\* main() is in the loop: at while (gLooping), or inside loop()
InLoop ==
    {"while_test", "loop_entry", "update_buffers", "draw", "pause_test",
     "batch_test", "in_evolve_batch", "batch_inc", "evolve_last",
     "in_evolve_last", "last_inc", "tick_time", "check_max"}

\* the configuration is one whose generations the model follows to the end
\* of the tick that reaches config::maxIterations
FollowedToMax(r) ==
    /\ config[r].maxIterations > 0
    /\ config[r].maxIterations + config[r].skipFrames <= MaxIterationCount

\* the generations that can still be counted are enough for a whole tick
TickFollowed(r) ==
    iterations[r] + config[r].skipFrames + 1 <= MaxIterationCount

\* C11: the headless loop, every evolve call returning.  (1) The loop has
\* not ended without a stop request unless config::maxIterations > 0.
\* (2) With config::maxIterations > 0 the loop ends, stop request or not.
\* (3) After a stop request the loop ends.  An execution whose evolve call
\* kills the process is outside the assumption.
C11_HeadlessTermination ==
    /\ [](\A r \in runs :
             (Headless(r) /\ pc[r] \in LoopEnded /\ ~hist[r].stopRequested)
                 => config[r].maxIterations > 0)
    /\ \A r \in {1} :
          (pc[r] \in InLoop /\ Headless(r) /\ FollowedToMax(r))
              ~> (pc[r] \in LoopEnded \cup {"crashed"})
    /\ \A r \in {1} :
          (pc[r] \in InLoop /\ Headless(r) /\ hist[r].stopRequested
             /\ TickFollowed(r))
              ~> (pc[r] \in LoopEnded \cup {"crashed"})

\* C11 witness: with config::maxIterations = 0 the headless loop computed
\* generations, then a stop request came and the loop ended.
C11_Witness ==
    \E r \in runs :
        /\ Headless(r)
        /\ config[r].maxIterations = 0
        /\ pc[r] = "done"
        /\ hist[r].stopRequested
        /\ iterations[r] >= 2

\* C12: a tick that began with controls::singleStep true, paused or not,
\* has, when its body is over, called evolve exactly once (the batch of
\* config::skipFrames generations is skipped), stats::iterations is 1 more
\* than at the start of the tick, controls::singleStep is false and
\* controls::paused is what it was at the start of the tick.
C12_SingleStep ==
    \A r \in runs :
        (hist[r].tickSingleStep /\ pc[r] \in TickBodyDone) =>
            /\ Len(hist[r].tickCalls) = 1
            /\ iterations[r] = hist[r].tickStartIterations + 1
            /\ ~controls[r].singleStep
            /\ controls[r].paused = hist[r].tickPaused

\* C12 witness: a paused driver with config::skipFrames >= 1 has run the
\* body of a single-step tick.
C12_Witness ==
    \E r \in runs :
        /\ pc[r] = "check_max"
        /\ hist[r].tickSingleStep
        /\ hist[r].tickPaused
        /\ config[r].skipFrames >= 1
        /\ iterations[r] >= 1

\* the generations stats::iterations has grown by since the tick began
TickIncrease(r) == iterations[r] - hist[r].tickStartIterations

\* the evolve calls of the tick but the last passed countAlive = false
BatchUncounted(r) ==
    \A i \in 1..(Len(hist[r].tickCalls) - 1) : ~hist[r].tickCalls[i]

\* C13: a tick that began neither paused nor as a single step has, when its
\* body is over, made exactly config::skipFrames + 1 evolve calls, all but
\* the last with countAlive = false, and stats::iterations has grown by
\* skipFrames + 1; the growth of every tick is 0, 1 or skipFrames + 1.
C13_SkipFramesPlusOneInEveryBuild ==
    \A r \in runs :
        pc[r] \in TickBodyDone =>
            /\ (~hist[r].tickPaused /\ ~hist[r].tickSingleStep) =>
                  /\ Len(hist[r].tickCalls) = config[r].skipFrames + 1
                  /\ BatchUncounted(r)
                  /\ TickIncrease(r) = config[r].skipFrames + 1
            /\ TickIncrease(r) \in {0, 1, config[r].skipFrames + 1}

\* the generations a tick computes: the batch and the pause controls are
\* compiled in only without HEADLESS_ONLY
TickGenerations(r) ==
    IF build.HEADLESS_ONLY THEN 1
    ELSE IF TickBeganPaused(r) THEN 0
    ELSE IF hist[r].tickSingleStep THEN 1
    ELSE config[r].skipFrames + 1

\* C13 as amended: in a build without HEADLESS_ONLY a tick that began
\* neither paused nor as a single step has, when its body is over, made
\* exactly config::skipFrames + 1 evolve calls, all but the last with
\* countAlive = false; in a build with HEADLESS_ONLY every tick makes
\* exactly one evolve call, whatever config::skipFrames.  stats::iterations
\* has grown by the number of calls, which is 0, 1 or skipFrames + 1.
C13_GenerationsPerTick ==
    \A r \in runs :
        pc[r] \in TickBodyDone =>
            /\ Len(hist[r].tickCalls) = TickGenerations(r)
            /\ BatchUncounted(r)
            /\ TickIncrease(r) = TickGenerations(r)
            /\ TickIncrease(r) \in {0, 1, config[r].skipFrames + 1}

\* C13 witness: without HEADLESS_ONLY, a tick neither paused nor a single
\* step has computed a batch and the final generation.
C13_Witness ==
    \E r \in runs :
        /\ ~build.HEADLESS_ONLY
        /\ pc[r] = "check_max"
        /\ ~hist[r].tickPaused /\ ~hist[r].tickSingleStep
        /\ config[r].skipFrames >= 1
        /\ Len(hist[r].tickCalls) = config[r].skipFrames + 1
        /\ hist[r].tickStartIterations >= 1

\* loop() is past its rendering block
PastRendering ==
    {"pause_test", "batch_test", "in_evolve_batch", "batch_inc",
     "evolve_last", "in_evolve_last", "last_inc", "tick_time", "check_max"}

\* the tick has made n calls of update_grid_buffers() and n calls of draw()
TickObserved(r, n) ==
    hist[r].tickBufferUpdates = n /\ hist[r].tickDraws = n

\* the step calls update_grid_buffers() or draw()
ObservesGrid(r) ==
    \/ hist'[r].tickBufferUpdates > hist[r].tickBufferUpdates
    \/ hist'[r].tickDraws > hist[r].tickDraws

\* C14: once a tick is past its rendering block, update_grid_buffers() and
\* draw() have each been called exactly once in it if config::render is
\* true, and not at all if config::render is false.
C14_ObservedOncePerTickWhenRenderSet ==
    \A r \in runs :
        pc[r] \in PastRendering =>
            TickObserved(r, IF config[r].render THEN 1 ELSE 0)

\* C14 as amended: once a tick is past its rendering block, and in every
\* state after an evolve call of the tick, update_grid_buffers() and draw()
\* have each been called exactly once in the tick if config::render is true
\* and the build is without HEADLESS_ONLY, and not at all if config::render
\* is false or the build is with HEADLESS_ONLY.  A step that calls one of
\* the two is taken before any evolve call of the tick and never while an
\* evolve call is in flight, and draw() is never ahead of
\* update_grid_buffers().
C14_ObservedOncePerRenderedTick ==
    /\ [](\A r \in runs :
             /\ (pc[r] \in PastRendering \/ hist[r].tickCalls # <<>>) =>
                   TickObserved(r, IF ~build.HEADLESS_ONLY /\ config[r].render
                                   THEN 1 ELSE 0)
             /\ hist[r].tickDraws <= hist[r].tickBufferUpdates
             /\ hist[r].tickBufferUpdates <= 1)
    /\ [][\A r \in runs :
             ObservesGrid(r) =>
                 /\ hist[r].tickCalls = <<>>
                 /\ pc[r] \notin InEvolve]_vars

\* C14 witness: a rendered tick was drawn, then computed generations, after
\* earlier ticks had computed some.
C14_Witness ==
    \E r \in runs :
        /\ pc[r] = "check_max"
        /\ config[r].render
        /\ TickObserved(r, 1)
        /\ Len(hist[r].tickCalls) >= 1
        /\ hist[r].tickStartIterations >= 1

\* live_log() is about to be called: loop() is at if (logEnabled) with
\* logEnabled true
AtLiveLog(r) == pc[r] = "tick_time" /\ logEnabled[r]

\* C15: the It/s value a live_log() call reports is stats::iterations at
\* this call minus stats::iterations at the previous call (0 at startup),
\* which gLastIterationCount holds; the values reported so far add up to
\* stats::iterations at the last call.
C15_ThroughputAccounting ==
    \A r \in runs :
        /\ AtLiveLog(r) =>
              gIterationsPerSecond[r] =
                  iterations[r] - gLastIterationCount[r]
        /\ hist[r].reportedTotal = gLastIterationCount[r]

\* the statements of the skipFrames batch
InBatch == {"batch_test", "in_evolve_batch", "batch_inc"}

\* C16: an evolve call of the tick passed countAlive = true only if the
\* tick's logEnabled is true and the call is the final one of the tick, not
\* one of the batch.  A tick's logEnabled becomes true only with benchmark
\* mode off, stats::iterations above its value at the previous log and a
\* whole second gone since the previous log; so in benchmark mode every
\* call passes false.  A log is written only when a whole second has gone
\* since the previous log, and it restarts the second.
C16_CountAliveFollowsLogCadence ==
    /\ [](\A r \in runs :
             \A i \in 1..Len(hist[r].tickCalls) :
                 hist[r].tickCalls[i] =>
                     /\ logEnabled[r]
                     /\ ~config[r].benchmarkMode
                     /\ i = Len(hist[r].tickCalls)
                     /\ pc[r] \notin InBatch)
    /\ [][\A r \in runs :
             (pc[r] = "loop_entry" /\ pc'[r] # "loop_entry"
                /\ logEnabled'[r]) =>
                 /\ ~config[r].benchmarkMode
                 /\ iterations[r] > gLastIterationCount[r]
                 /\ elapsed[r] >= 1]_vars
    /\ [][\A r \in runs :
             hist'[r].reportedTotal # hist[r].reportedTotal =>
                 /\ elapsed[r] >= 1
                 /\ elapsed'[r] = 0]_vars

\* C16 witness: a tick with a batch has logged: its batch call passed
\* countAlive = false and its final call true.
C16_Witness ==
    \E r \in runs :
        /\ pc[r] = "check_max"
        /\ logEnabled[r]
        /\ Len(hist[r].tickCalls) >= 2
        /\ ~hist[r].tickCalls[1]
        /\ hist[r].tickCalls[Len(hist[r].tickCalls)]

\* config::load_cmd has returned
CmdLoaded(r) == pc[r] \notin {"load_cmd", "exited"}

\* C17: once config::load_cmd has returned, config::startPaused is true
\* exactly if --render is on the command line and --start is not, wherever
\* on the command line they stand.  A run without --render is never
\* paused, and every tick of the headless driver has called evolve and
\* counted a generation when its body is over.
C17_InitialPauseState ==
    \A r \in runs :
        /\ CmdLoaded(r) =>
              (config[r].startPaused <=>
                  (Count(argv, "render") /\ ~Count(argv, "start")))
        /\ ~Count(argv, "render") => ~controls[r].paused
        /\ (Headless(r) /\ pc[r] \in TickBodyDone) =>
              /\ Len(hist[r].tickCalls) >= 1
              /\ TickIncrease(r) >= 1

\* C17 witness: --start stood before --render; the run started unpaused and
\* its first tick computed a generation.
C17_Witness ==
    \E r \in runs :
        /\ Len(argv) = 2
        /\ argv[1].opt = "start" /\ argv[2].opt = "render"
        /\ ~config[r].startPaused
        /\ pc[r] = "check_max"
        /\ Len(hist[r].tickCalls) >= 1

\* the final value of a size: the value of its option if the option is on
\* the command line, the default of config.cpp if it is not
FinalSize(name) ==
    IF \E i \in 1..Len(argv) : argv[i].opt = name
    THEN LET i == CHOOSE j \in 1..Len(argv) : argv[j].opt = name
         IN  argv[i].val
    ELSE IF name \in {"width", "height"} THEN 600 ELSE 1200

\* C18: once config::load_cmd has returned, config::noDownsample is true
\* exactly if --no-downsample is on the command line or the final width
\* equals the final cols and the final height equals the final rows, the
\* defaults 600 x 600 and 1200 x 1200 standing for the options not given.
C18_NoDownsample ==
    \A r \in runs :
        CmdLoaded(r) =>
            (config[r].noDownsample <=>
                \/ \E i \in 1..Len(argv) : argv[i].opt = "no-downsample"
                \/ /\ FinalSize("width") = FinalSize("cols")
                   /\ FinalSize("height") = FinalSize("rows"))

\* C18 witness: --rows 600 before --width 1200, nothing else: the window of
\* 1200 x 600 is the size of the grid, and config::noDownsample is true.
C18_Witness ==
    \E r \in runs :
        /\ argv = <<Tok("rows", 600), Tok("width", 1200)>>
        /\ CmdLoaded(r)
        /\ config[r].noDownsample

\* C19: whenever live_log() is about to be called, gIterationsPerSecond is
\* greater than 0, so its division does not divide by zero;
\* gIterationsPerSecond is written only by should_log() at the start of a
\* tick, not between that test and the division; and gLastIterationCount
\* never exceeds stats::iterations, so the subtraction of should_log() does
\* not wrap.
C19_LiveLogNeverDividesByZero ==
    /\ [](\A r \in runs :
             /\ AtLiveLog(r) => gIterationsPerSecond[r] > 0
             /\ gLastIterationCount[r] <= iterations[r]
             /\ gIterationsPerSecond[r] <= iterations[r])
    /\ [][\A r \in runs :
             gIterationsPerSecond'[r] # gIterationsPerSecond[r] =>
                 pc[r] = "loop_entry"]_vars

\* C19 witness: a paused tick logs the generations computed before the
\* pause.
C19_Witness ==
    \E r \in runs :
        /\ AtLiveLog(r)
        /\ TickBeganPaused(r)
        /\ gIterationsPerSecond[r] >= 1
        /\ gLastIterationCount[r] >= 1
====
